---- MODULE Spec2Model ----
(***************************************************************************)
(* A model of the vote-counter repository: the ballot validity rules of    *)
(* vote_validation.py, the name/mark association of                        *)
(* yolo_vote_extraction.py, the row slicing and row loop of                *)
(* cv_vote_extraction.py and the text path of layout_processing.py.        *)
(* Each program is a small state machine: its input is drawn in Init, and  *)
(* one action per call of its main() produces the output.                  *)
(***************************************************************************)
EXTENDS Integers, Sequences, FiniteSets, TLC

VARIABLES
    pc,                 \* position of the running program
    votes,              \* layout_processing.main: the list of vote records
    ballot,             \* layout_processing.main: what the program has produced
    boxes,              \* yolo: result.boxes, in the detector's order
    vote_symbol_dict,   \* yolo: VoteProcessor.vote_symbol_dict (insertion-ordered)
    names_and_votes,    \* yolo: the list find_names_and_votes returns
    image_height,       \* cv: image.shape[0]
    bounding_rects,     \* cv: cv2.boundingRect (x, y, w, h) of each contour found
    lines,              \* cv: horizontal_lines, the separator lines (x1, y1, x2, y2)
    sub_images,         \* cv: the list divide_image_by_lines returns
    rows_seen,          \* cv main: how many of extracted_img_rows the loop has taken
    row,                \* cv main: the row counter
    vote_dict,          \* cv main: row number -> identified symbol
    text_lines          \* layout: the stripped lines of the extracted text

vars == <<pc, votes, ballot, boxes, vote_symbol_dict, names_and_votes,
          image_height, bounding_rects, lines, sub_images,
          rows_seen, row, vote_dict, text_lines>>

\* Python's None (no mark string is spelled this way).
None == "<None>"

----------------------------------------------------------------------------
(* Bounds of the model *)

\* The longest ballot (number of vote records) the validator is given.
MaxVotes == 4

\* The most detections (name and mark boxes together) of one detector result
\* on the coarse grid.
MaxBoxes == 3

\* The coarse grid: box edges at 0, 1, ..., GridN times POSITION_TOLERANCE.
GridN == 3

\* The fine inputs: one name box and one mark box with integer edges in
\* 0..MaxY (the detector's coordinates are floats; whole pixels are modelled).
MaxY == 13

\* The tallest image, in pixel rows, that is divided into rows.
MaxHeight == 5

\* The most contours the line detection finds in one image.
MaxContours == 3

\* The tall images of the row filter: edges at k * MIN_ROW_SIZE + d for k in
\* 0..MaxBands and d in 0..Near, so that rows are MIN_ROW_SIZE pixels high, or
\* a little less, or a little more.
MaxBands == 2

Near == 1

\* The most separator lines of a tall image.
MaxTallLines == 3

\* The most lines of an extracted text, the longest text after a line's
\* NAME_END_POSITION, in characters, and how many of CANDIDATE_NAMES occur.
MaxTextLines == 3

MaxTail == 3

NumNames == 1

----------------------------------------------------------------------------
(* layout_processing.py constants and vote_validation.py *)

VALID_VOTE_CHARACTERS == <<"X", "x">>

VALID_VOTE_NUMBERS == <<"1", "2", "3">>

VALID_VOTES == VALID_VOTE_CHARACTERS \o VALID_VOTE_NUMBERS

CANDIDATE_NAMES ==
    <<"PAMUDU RANASINGHE", "KASUN JAYAWARDENA", "THARINDU FERNANDO",
      "SHENAL RATHNAYAKE", "MAHESHA HETTIARACHCHI", "RAVINDU WICKRAMASINGHE",
      "MANUJA WIJESINGHE", "ISURU KARUNARATNE">>

\* The marks a record may carry: the valid ones, a digit that is not a valid
\* number, and the "Unknown" of a template match below the threshold
\* (cv_vote_extraction.identify_symbol).
Marks == {"X", "x", "1", "2", "3", "4", "Unknown"}

\* Python compares strings by code point; every mark differs from the others
\* in its first character, so the first character's code point orders them.
Ord(s) ==
    CASE s = "1" -> 49
      [] s = "2" -> 50
      [] s = "3" -> 51
      [] s = "4" -> 52
      [] s = "Unknown" -> 85
      [] s = "X" -> 88
      [] s = "x" -> 120

Range(s) == {s[i] : i \in DOMAIN s}

\* list.count(x)
Count(s, x) == Cardinality({i \in DOMAIN s : s[i] = x})

RECURSIVE SumSeq(_)
SumSeq(s) == IF s = <<>> THEN 0 ELSE Head(s) + SumSeq(Tail(s))

\* Insertion of x into the sorted list s, after every element not greater
\* than x (a stable sort).
RECURSIVE InsertSorted(_, _)
InsertSorted(s, x) ==
    IF s = <<>> THEN <<x>>
    ELSE IF Ord(x) < Ord(Head(s)) THEN <<x>> \o s
    ELSE <<Head(s)>> \o InsertSorted(Tail(s), x)

RECURSIVE SortFrom(_, _)
SortFrom(acc, s) ==
    IF s = <<>> THEN acc ELSE SortFrom(InsertSorted(acc, Head(s)), Tail(s))

\* A sort that leaves the list as it is.
sorted_unsorted(s) == s

\* sorted(list of str)
sorted(s) == SortFrom(<<>>, s)

\* Keeps the valid marks only: an invalid mark is dropped like a None.
extracted_votes_valid_only(vs) ==
    LET all == [i \in DOMAIN vs |-> vs[i].vote]
    IN  SelectSeq(all, LAMBDA v : v \in Range(VALID_VOTES))

\* vote_validation.py:15
extracted_votes(vs) ==
    LET all == [i \in DOMAIN vs |-> vs[i].vote]
    IN  SelectSeq(all, LAMBDA v : v # None)

\* Counts the upper-case cross only.
x_count_first_character_only(ev) == Count(ev, VALID_VOTE_CHARACTERS[1])

\* vote_validation.py:25
x_count(ev) ==
    SumSeq([k \in DOMAIN VALID_VOTE_CHARACTERS |->
                Count(ev, VALID_VOTE_CHARACTERS[k])])

\* Rejects a cross among other marks, and not several crosses.
cross_rule_rejects_mixed_only(ev) == x_count(ev) = 1 /\ Len(ev) # 1

\* vote_validation.py:28
cross_rule_rejects(ev) ==
    x_count(ev) > 1 \/ (x_count(ev) = 1 /\ Len(ev) # 1)

\* Compares the set of numbers, and not the list.
numbered_rule_rejects_as_set(ev) ==
    IF \A i \in DOMAIN ev : ev[i] \in Range(VALID_VOTE_NUMBERS)
    THEN Range(ev) # Range(VALID_VOTE_NUMBERS)
    ELSE TRUE

\* vote_validation.py:33-37
numbered_rule_rejects(ev) ==
    IF \A i \in DOMAIN ev : ev[i] \in Range(VALID_VOTE_NUMBERS)
    THEN sorted(ev) # VALID_VOTE_NUMBERS
    ELSE TRUE

\* VoteValidator.is_valid
is_valid(vs) ==
    LET ev == extracted_votes(vs) IN
    IF ev = <<>> THEN FALSE
    ELSE IF \E i \in DOMAIN ev : ev[i] \notin Range(VALID_VOTES) THEN FALSE
    ELSE IF cross_rule_rejects(ev) THEN FALSE
    ELSE IF x_count(ev) = 0 /\ numbered_rule_rejects(ev) THEN FALSE
    ELSE TRUE

\* The vote records of one ballot: record i is the i-th candidate of the sheet.
VoteRecord(i, v) ==
    [sheet_position |-> i, candidate_name |-> CANDIDATE_NAMES[i], vote |-> v]

\* vs is a ballot of up to MaxVotes records.
IsBallot(vs) ==
    \E n \in 0..MaxVotes :
        \E m \in [1..n -> Marks \cup {None}] :
            vs = [i \in 1..n |-> VoteRecord(i, m[i])]

\* The values the variables of the other programs keep.
IdleYolo ==
    /\ boxes = <<>>
    /\ vote_symbol_dict = <<>>
    /\ names_and_votes = <<>>

\* cv main before its loop: row = 0 and vote_dict = {}
LoopNotStarted ==
    /\ rows_seen = 0
    /\ row = 0
    /\ vote_dict = <<>>

IdleCv ==
    /\ image_height = 0
    /\ bounding_rects = <<>>
    /\ lines = <<>>
    /\ sub_images = <<>>
    /\ LoopNotStarted

IdleLayout ==
    /\ votes = <<>>
    /\ ballot = [votes |-> <<>>]
    /\ text_lines = <<>>

InitValidate ==
    /\ pc = "layout_votes"
    /\ IsBallot(votes)
    /\ ballot = [votes |-> votes]
    /\ text_lines = <<>>
    /\ IdleYolo
    /\ IdleCv

\* layout_processing.main, from the extracted votes on: the ballot's validity
\* is the one thing it derives from them.
Validate ==
    /\ pc = "layout_votes"
    /\ ballot' = [votes |-> votes, is_valid |-> is_valid(votes)]
    /\ pc' = "layout_done"
    /\ UNCHANGED <<votes, boxes, vote_symbol_dict, names_and_votes,
                   image_height, bounding_rects, lines, sub_images,
                   rows_seen, row, vote_dict, text_lines>>

NextValidate == Validate

SpecValidate == InitValidate /\ [][NextValidate]_vars

----------------------------------------------------------------------------
(* yolo_vote_extraction.py *)

CLASS_NAME_TO_IGNORE == "name"

POSITION_TOLERANCE == 10

\* The class labels of the detector: the name region and two mark labels.
MarkClasses == {"X", "1"}

Classes == {CLASS_NAME_TO_IGNORE} \cup MarkClasses

\* A detection: its class name and box.xyxy, the 1 x 4 array [[x1, y1, x2, y2]]
\* (Python's pos[0][1] and pos[0][3] are pos[1][2] and pos[1][4] here).
Box(c, y1, y2) == [cls |-> c, xyxy |-> << <<0, y1, 1, y2>> >>]

\* Python's None where a tuple is expected.
NoVote == <<>>

Abs(n) == IF n < 0 THEN -n ELSE n

\* d[k] = v on an insertion-ordered dict, kept as a list of <<key, value>>: a
\* key already there keeps its place and takes the new value.
DictSet(d, k, v) ==
    IF \E i \in DOMAIN d : d[i][1] = k
    THEN [i \in DOMAIN d |-> IF d[i][1] = k THEN <<k, v>> ELSE d[i]]
    ELSE Append(d, <<k, v>>)

RECURSIVE DictFrom(_, _)
DictFrom(d, bs) ==
    IF bs = <<>> THEN d
    ELSE IF Head(bs).cls # CLASS_NAME_TO_IGNORE
         THEN DictFrom(DictSet(d, Head(bs).cls, Head(bs).xyxy), Tail(bs))
         ELSE DictFrom(d, Tail(bs))

\* VoteProcessor._extract_vote_symbols
extract_vote_symbols(bs) == DictFrom(<<>>, bs)

\* Case 1 as "the symbol starts within the name bounds".
case1_symbol_starts_within_name(name_pos, symbol_pos) ==
    LET name_y1 == name_pos[1][2]
        name_y2 == name_pos[1][4]
    IN  symbol_pos[1][2] >= name_y1 /\ symbol_pos[1][2] <= name_y2

\* Case 1: Name starts within the symbol bounds
case1_name_starts_within_symbol(name_pos, symbol_pos) ==
    LET name_y1 == name_pos[1][2]
    IN  name_y1 >= symbol_pos[1][2] /\ name_y1 <= symbol_pos[1][4]

\* Case 2: Name fully overlaps the symbol
case2_name_overlaps_symbol(name_pos, symbol_pos) ==
    LET name_y1 == name_pos[1][2]
        name_y2 == name_pos[1][4]
    IN  name_y1 <= symbol_pos[1][2] /\ name_y2 >= symbol_pos[1][4]

\* Case 3 with the tolerance itself included.
case3_symbol_at_top_inclusive(name_pos, symbol_pos) ==
    LET name_y1 == name_pos[1][2]
    IN  Abs(name_y1 - symbol_pos[1][4]) <= POSITION_TOLERANCE

\* Case 3: Vote symbol at top of the name
case3_symbol_at_top(name_pos, symbol_pos) ==
    LET name_y1 == name_pos[1][2]
    IN  Abs(name_y1 - symbol_pos[1][4]) < POSITION_TOLERANCE

\* Case 4: Vote symbol at bottom of the name
case4_symbol_at_bottom(name_pos, symbol_pos) ==
    LET name_y2 == name_pos[1][4]
    IN  Abs(symbol_pos[1][2] - name_y2) < POSITION_TOLERANCE

\* The if/elif chain of _check_for_vote for one symbol: the tag of the first
\* case that holds, None when none does.
case_tag(name_pos, symbol_pos) ==
    IF case1_name_starts_within_symbol(name_pos, symbol_pos) THEN "1"
    ELSE IF case2_name_overlaps_symbol(name_pos, symbol_pos) THEN "2"
    ELSE IF case3_symbol_at_top(name_pos, symbol_pos) THEN "TOP"
    ELSE IF case4_symbol_at_bottom(name_pos, symbol_pos) THEN "BOTTOM"
    ELSE None

\* VoteProcessor._check_for_vote, over the items of vote_symbol_dict from d on
RECURSIVE check_for_vote(_, _, _)
check_for_vote(name_pos, index, d) ==
    IF d = <<>> THEN NoVote
    ELSE LET symbol == Head(d)[1]
             symbol_pos == Head(d)[2]
             tag == case_tag(name_pos, symbol_pos)
         IN  IF tag # None THEN <<index, symbol, tag>>
             ELSE check_for_vote(name_pos, index, Tail(d))

\* find_names_and_votes that lists a name without a vote too, with None.
RECURSIVE names_and_votes_with_none(_, _, _)
names_and_votes_with_none(bs, i, d) ==
    IF i >= Len(bs) THEN <<>>
    ELSE LET box == bs[i + 1]
             associated_vote == check_for_vote(box.xyxy, i, d)
             here == IF box.cls # CLASS_NAME_TO_IGNORE THEN <<>>
                     ELSE IF associated_vote # NoVote THEN <<associated_vote>>
                     ELSE << <<i, None, None>> >>
         IN  here \o names_and_votes_with_none(bs, i + 1, d)

\* VoteProcessor.find_names_and_votes, from the i-th box (0-based) on
RECURSIVE find_names_and_votes(_, _, _)
find_names_and_votes(bs, i, d) ==
    IF i >= Len(bs) THEN <<>>
    ELSE LET box == bs[i + 1]
             associated_vote == check_for_vote(box.xyxy, i, d)
             here == IF box.cls = CLASS_NAME_TO_IGNORE /\ associated_vote # NoVote
                     THEN <<associated_vote>>
                     ELSE <<>>
         IN  here \o find_names_and_votes(bs, i + 1, d)

Spans(Ys) == {s \in Ys \X Ys : s[1] < s[2]}

GridYs == {k * POSITION_TOLERANCE : k \in 0..GridN}

GridBoxes == {Box(c, s[1], s[2]) : c \in Classes, s \in Spans(GridYs)}

\* Detector results on the coarse grid: up to MaxBoxes boxes in any order.
GridResult(bs) == \E n \in 0..MaxBoxes : bs \in [1..n -> GridBoxes]

\* Detector results of one name box and one mark box, in either order, with
\* edges at whole pixels.
FineResult(bs) ==
    \E n, m \in Spans(0..MaxY), c \in MarkClasses :
        LET name == Box(CLASS_NAME_TO_IGNORE, n[1], n[2])
            mark == Box(c, m[1], m[2])
        IN  bs = <<name, mark>> \/ bs = <<mark, name>>

InitAssociate ==
    /\ pc = "yolo_result"
    /\ (GridResult(boxes) \/ FineResult(boxes))
    /\ vote_symbol_dict = <<>>
    /\ names_and_votes = <<>>
    /\ IdleLayout
    /\ IdleCv

\* yolo main: vote_processor = VoteProcessor(first_result)
Construct ==
    /\ pc = "yolo_result"
    /\ vote_symbol_dict' = extract_vote_symbols(boxes)
    /\ pc' = "yolo_processor"
    /\ UNCHANGED <<votes, ballot, boxes, names_and_votes,
                   image_height, bounding_rects, lines, sub_images,
                   rows_seen, row, vote_dict, text_lines>>

\* yolo main: names_and_votes = vote_processor.find_names_and_votes()
FindNamesAndVotes ==
    /\ pc = "yolo_processor"
    /\ names_and_votes' = find_names_and_votes(boxes, 0, vote_symbol_dict)
    /\ pc' = "yolo_done"
    /\ UNCHANGED <<votes, ballot, boxes, vote_symbol_dict,
                   image_height, bounding_rects, lines, sub_images,
                   rows_seen, row, vote_dict, text_lines>>

NextAssociate == Construct \/ FindNamesAndVotes

SpecAssociate == InitAssociate /\ [][NextAssociate]_vars

----------------------------------------------------------------------------
(* cv_vote_extraction.py: the row segmenter *)

MIN_LINE_WIDTH == 300

\* RESIZE_DIM[0], the width of the rectified image.
IMAGE_WIDTH == 480

Min(a, b) == IF a < b THEN a ELSE b

\* The rows of image[y1:y2, 0:width] for 0 <= y1, y2, as the indexes of the
\* image's pixel rows they are; every one spans the full width. A bound beyond
\* the image is clipped to it, and y1 >= y2 gives no row.
Slice(y1, y2, height) ==
    LET lo == Min(y1, height)
        hi == Min(y2, height)
    IN  [k \in 1..(hi - lo) |-> lo + k - 1]

\* detect_horizontal_lines, from the contours' bounding rectangles on
detect_horizontal_lines(rects) ==
    LET wide == SelectSeq(rects, LAMBDA r : r[3] > MIN_LINE_WIDTH)
    IN  [i \in DOMAIN wide |->
            <<wide[i][1], wide[i][2], wide[i][1] + wide[i][3], wide[i][2] + wide[i][4]>>]

\* Insertion of line after every line of the sorted list ls whose
\* y-coordinate (line[1] in Python, line[2] here) is not greater.
RECURSIVE InsertByY(_, _)
InsertByY(ls, line) ==
    IF ls = <<>> THEN <<line>>
    ELSE IF line[2] < Head(ls)[2] THEN <<line>> \o ls
    ELSE <<Head(ls)>> \o InsertByY(Tail(ls), line)

RECURSIVE SortByYFrom(_, _)
SortByYFrom(acc, ls) ==
    IF ls = <<>> THEN acc ELSE SortByYFrom(InsertByY(acc, Head(ls)), Tail(ls))

\* The lines left in the order of their detection.
sort_by_y_omitted(ls) == ls

\* lines.sort(key=lambda line: line[1])
sort_by_y(ls) == SortByYFrom(<<>>, ls)

\* divide_image_by_lines: the sub-images it returns
divide_image_by_lines(height, ls) ==
    LET width == IMAGE_WIDTH
        all == <<<<0, 0, width, 0>>>> \o sort_by_y(ls) \o <<<<0, height, width, height>>>>
    IN  [i \in 1..(Len(all) - 1) |-> Slice(all[i][2], all[i + 1][2], height)]

\* The bounding rectangles of the contours of an image of the given height: a
\* rectangle lies within the image, and is one pixel row thick and as wide as
\* MIN_LINE_WIDTH (not a line) or as the whole image (a line).
Rects(height) ==
    {<<0, y, w, 1>> : y \in 0..(height - 1), w \in {MIN_LINE_WIDTH, IMAGE_WIDTH}}

InitSegment ==
    /\ pc = "cv_warped"
    /\ image_height \in 1..MaxHeight
    /\ \E n \in 0..MaxContours : bounding_rects \in [1..n -> Rects(image_height)]
    /\ lines = <<>>
    /\ sub_images = <<>>
    /\ LoopNotStarted
    /\ IdleLayout
    /\ IdleYolo

\* cv main: horizontal_lines = detect_horizontal_lines(img_warped_bw)
DetectHorizontalLines ==
    /\ pc = "cv_warped"
    /\ lines' = detect_horizontal_lines(bounding_rects)
    /\ pc' = "cv_lines"
    /\ UNCHANGED <<votes, ballot, boxes, vote_symbol_dict, names_and_votes,
                   image_height, bounding_rects, sub_images,
                   rows_seen, row, vote_dict, text_lines>>

\* cv main: extracted_img_rows = divide_image_by_lines(img_warped,
\* horizontal_lines); the list given is sorted in place.
DivideImageByLines ==
    /\ pc = "cv_lines"
    /\ lines' = sort_by_y(lines)
    /\ sub_images' = divide_image_by_lines(image_height, lines)
    /\ pc' = "cv_rows"
    /\ UNCHANGED <<votes, ballot, boxes, vote_symbol_dict, names_and_votes,
                   image_height, bounding_rects,
                   rows_seen, row, vote_dict, text_lines>>

NextSegment == DetectHorizontalLines \/ DivideImageByLines

SpecSegment == InitSegment /\ [][NextSegment]_vars

----------------------------------------------------------------------------
(* cv_vote_extraction.py: the loop of main over the rows *)

\* The 40 of main's test on img_row.shape.
MIN_ROW_SIZE == 40

\* What identify_symbol returns: the symbol of a template, or "Unknown" when
\* no template scores above the threshold.
IdentifiedSymbols == {"X", "1", "Unknown"}

\* A row is kept from MIN_ROW_SIZE pixels on.
keeps_row_from_minimum(shape0, shape1) ==
    shape0 >= MIN_ROW_SIZE /\ shape1 >= MIN_ROW_SIZE

\* if img_row.shape[0] > 40 and img_row.shape[1] > 40
keeps_row(shape0, shape1) == shape0 > MIN_ROW_SIZE /\ shape1 > MIN_ROW_SIZE

\* vote_dict[k] = v
DictAssign(d, k, v) ==
    [j \in (DOMAIN d) \cup {k} |-> IF j = k THEN v ELSE d[j]]

TallYs == {k * MIN_ROW_SIZE + d : k \in 0..MaxBands, d \in 0..Near}

\* The bounding rectangles of the separator lines of a tall image: as wide as
\* the image, one pixel row thick, within the image.
TallRects(height) == {<<0, y, IMAGE_WIDTH, 1>> : y \in {t \in TallYs : t < height}}

InitRows ==
    /\ pc = "cv_warped"
    /\ image_height \in TallYs \ {0}
    /\ \E n \in 0..MaxTallLines : bounding_rects \in [1..n -> TallRects(image_height)]
    /\ lines = <<>>
    /\ sub_images = <<>>
    /\ LoopNotStarted
    /\ IdleLayout
    /\ IdleYolo

\* cv main: one turn of "for img_row in extracted_img_rows"
ProcessRow ==
    /\ pc = "cv_rows"
    /\ rows_seen < Len(sub_images)
    /\ rows_seen' = rows_seen + 1
    /\ LET img_row == sub_images[rows_seen + 1]
           shape0 == Len(img_row)
           shape1 == IMAGE_WIDTH
       IN  IF keeps_row(shape0, shape1)
           THEN /\ row' = row + 1
                /\ \E symbol \in IdentifiedSymbols :
                       vote_dict' = DictAssign(vote_dict, row + 1, symbol)
           ELSE UNCHANGED <<row, vote_dict>>
    /\ UNCHANGED <<pc, votes, ballot, boxes, vote_symbol_dict, names_and_votes,
                   image_height, bounding_rects, lines, sub_images, text_lines>>

NextRows == DetectHorizontalLines \/ DivideImageByLines \/ ProcessRow

SpecRows == InitRows /\ [][NextRows]_vars

----------------------------------------------------------------------------
(* layout_processing.py: the text path *)

NAME_END_POSITION == 20

\* The characters of a line after NAME_END_POSITION: those of the printed
\* box "[X]", of which "X" is a valid vote character too.
TailChars == {"[", "X", "]"}

\* A stripped line of the text, as what process_votes reads of it: the name
\* extract_candidate_name(line) returns (None without a known name) and the
\* characters of line[NAME_END_POSITION:].
TextLine(name, tail) == [name |-> name, tail |-> tail]

TextLines ==
    {TextLine(name, tail) :
        name \in {None} \cup {CANDIDATE_NAMES[k] : k \in 1..NumNames},
        tail \in UNION {[1..n -> TailChars] : n \in 0..MaxTail}}

\* line.replace('[X]', ''): every occurrence removed, from the left
RECURSIVE replace_box(_)
replace_box(line) ==
    IF line = <<>> THEN <<>>
    ELSE IF Len(line) >= 3 /\ SubSeq(line, 1, 3) = <<"[", "X", "]">>
    THEN replace_box(SubSeq(line, 4, Len(line)))
    ELSE <<Head(line)>> \o replace_box(Tail(line))

\* VoteExtractor.extract_vote
extract_vote(line) ==
    LET l == replace_box(line)
        hits == {i \in DOMAIN l : l[i] \in Range(VALID_VOTES)}
    IN  IF hits = {} THEN None
        ELSE l[CHOOSE i \in hits : \A j \in hits : i <= j]

\* The exception of a list index out of range, where a vote is expected.
IndexError == "<IndexError>"

\* Whether ls[k], for a 0-based k, is an item of the list: a negative k counts
\* from the end of the list, and a k outside the list raises IndexError.
HasItem(ls, k) == (k >= 0 /\ k < Len(ls)) \/ (k < 0 /\ -k <= Len(ls))

PyItem(ls, k) == IF k >= 0 THEN ls[k + 1] ELSE ls[Len(ls) + k + 1]

\* extract_vote(lines[k][NAME_END_POSITION:])
vote_of_line(ls, k) ==
    IF HasItem(ls, k) THEN extract_vote(PyItem(ls, k).tail) ELSE IndexError

\* process_votes: the vote of the candidate of line i (0-based): the current
\* line, then "previous or next", the next one read only when the previous
\* one yields None.
vote_of_candidate(ls, i) ==
    IF vote_of_line(ls, i) # None THEN vote_of_line(ls, i)
    ELSE IF vote_of_line(ls, i - 1) \notin {None, IndexError}
    THEN vote_of_line(ls, i - 1)
    ELSE IF vote_of_line(ls, i - 1) = IndexError THEN IndexError
    ELSE vote_of_line(ls, i + 1)

\* What a call of process_votes comes to: the list it returns, or the
\* exception that escapes it.
Returned(records) == [raised |-> FALSE, vote_dict |-> records]

Raised == [raised |-> TRUE, vote_dict |-> <<>>]

\* process_votes, from line i (0-based) on, vote_dict_so_far being the records
\* appended before it.
RECURSIVE process_votes(_, _, _)
process_votes(ls, i, vote_dict_so_far) ==
    IF i >= Len(ls) THEN Returned(vote_dict_so_far)
    ELSE LET candidate_name == ls[i + 1].name IN
         IF candidate_name = None THEN process_votes(ls, i + 1, vote_dict_so_far)
         ELSE LET vote == vote_of_candidate(ls, i)
                  record == [sheet_position |-> Len(vote_dict_so_far) + 1,
                             candidate_name |-> candidate_name,
                             vote |-> vote]
              IN  IF vote = IndexError THEN Raised
                  ELSE process_votes(ls, i + 1, Append(vote_dict_so_far, record))

InitLayout ==
    /\ pc = "layout_text"
    /\ \E n \in 1..MaxTextLines : text_lines \in [1..n -> TextLines]
    /\ votes = <<>>
    /\ ballot = [votes |-> <<>>]
    /\ IdleYolo
    /\ IdleCv

\* layout_processing.main: votes = voting_system.process_votes(); an exception
\* of process_votes ends the program.
ProcessVotes ==
    /\ pc = "layout_text"
    /\ LET returned == process_votes(text_lines, 0, <<>>) IN
       IF returned.raised
       THEN /\ pc' = "layout_raised"
            /\ UNCHANGED <<votes, ballot>>
       ELSE /\ pc' = "layout_votes"
            /\ votes' = returned.vote_dict
            /\ ballot' = [votes |-> returned.vote_dict]
    /\ UNCHANGED <<boxes, vote_symbol_dict, names_and_votes,
                   image_height, bounding_rects, lines, sub_images,
                   rows_seen, row, vote_dict, text_lines>>

NextLayout == ProcessVotes \/ Validate

SpecLayout == InitLayout /\ [][NextLayout]_vars

----------------------------------------------------------------------------
(* The validity rules: claims C1 to C5 *)

LayoutDone == pc = "layout_done"

Crosses == {"X", "x"}

Numbers == {"1", "2", "3"}

\* The sheet positions whose record carries a mark of S.
MarkedWith(S) == {i \in DOMAIN votes : votes[i].vote \in S}

\* A field of the produced ballot; a field the program never derived is None.
Derived(f) == IF f \in DOMAIN ballot THEN ballot[f] ELSE None

\* The candidate of the one record marked m.
CandidateMarked(S) == votes[CHOOSE i \in MarkedWith(S) : TRUE].candidate_name

\* Exactly one candidate has a cross and every other one has None.
SingleCrossBallot ==
    /\ Cardinality(MarkedWith(Crosses)) = 1
    /\ MarkedWith(Marks \ Crosses) = {}

\* One each of 1, 2, 3 on three candidates and None for every other one.
NumberedBallot ==
    /\ \A m \in Numbers : Cardinality(MarkedWith({m})) = 1
    /\ MarkedWith(Marks \ Numbers) = {}

NoPreferenceDerived ==
    /\ Derived("first_preference") = None
    /\ Derived("second_preference") = None
    /\ Derived("third_preference") = None

\* C1, as the spec states it: a ballot with exactly one cross and None for
\* every other candidate is valid, its first preference is the crossed
\* candidate and its second and third preference are None.
C1_AsStated ==
    (LayoutDone /\ SingleCrossBallot) =>
        /\ ballot.is_valid = TRUE
        /\ Derived("first_preference") = CandidateMarked(Crosses)
        /\ Derived("second_preference") = None
        /\ Derived("third_preference") = None

\* C1, amended: a ballot with exactly one cross ('X' or 'x') and None for every
\* other candidate is valid; the validator returns this boolean alone, and no
\* first, second or third preference is derived from the ballot.
C1_SingleCrossValid ==
    (LayoutDone /\ SingleCrossBallot) =>
        /\ ballot.is_valid = TRUE
        /\ NoPreferenceDerived

\* A validated ballot of three candidates or more whose second one has the
\* lower-case cross, all others None.
C1_Witness ==
    /\ LayoutDone
    /\ SingleCrossBallot
    /\ Len(votes) >= 3
    /\ votes[2].vote = "x"
    /\ ballot.is_valid = TRUE

\* C2, as the spec states it: a ballot with one each of 1, 2, 3 on distinct
\* candidates, in any row order, is valid and its first, second and third
\* preference are the candidates marked 1, 2 and 3.
C2_AsStated ==
    (LayoutDone /\ NumberedBallot) =>
        /\ ballot.is_valid = TRUE
        /\ Derived("first_preference") = CandidateMarked({"1"})
        /\ Derived("second_preference") = CandidateMarked({"2"})
        /\ Derived("third_preference") = CandidateMarked({"3"})

\* C2, amended: a ballot with one each of 1, 2, 3 on distinct candidates, in
\* any row order, is valid; the validator returns this boolean alone, and no
\* first, second or third preference is derived from the ballot.
C2_NumberedValid ==
    (LayoutDone /\ NumberedBallot) =>
        /\ ballot.is_valid = TRUE
        /\ NoPreferenceDerived

\* A validated ballot whose rows read 3, None, 1, 2 from the top.
C2_Witness ==
    /\ LayoutDone
    /\ Len(votes) = 4
    /\ [i \in 1..4 |-> votes[i].vote] = <<"3", None, "1", "2">>
    /\ ballot.is_valid = TRUE

\* C3: a ballot with more than one cross ('X' and 'x' both count), or with one
\* cross and a number of marks other than one, is rejected; so is every ballot
\* with a cross and a numeric mark.
C3_CrossRule ==
    LET crosses == Cardinality(MarkedWith(Crosses))
        marks == Cardinality(MarkedWith(Marks))
    IN  LayoutDone =>
          /\ (crosses > 1 \/ (crosses = 1 /\ marks # 1)) => ballot.is_valid = FALSE
          /\ (crosses >= 1 /\ MarkedWith(Numbers) # {}) => ballot.is_valid = FALSE

\* A rejected ballot of an 'X' and an 'x' and no other mark.
C3_Witness ==
    /\ LayoutDone
    /\ Cardinality(MarkedWith({"X"})) = 1
    /\ Cardinality(MarkedWith({"x"})) = 1
    /\ Cardinality(MarkedWith(Marks)) = 2
    /\ ballot.is_valid = FALSE

\* C4: a ballot with no cross is valid only if its marks are exactly one 1,
\* one 2 and one 3: a repeated number, a missing number or more than three
\* numeric marks reject it.
C4_NumberedRule ==
    (LayoutDone /\ MarkedWith(Crosses) = {} /\ ballot.is_valid = TRUE) =>
        /\ \A m \in Numbers : Cardinality(MarkedWith({m})) = 1
        /\ Cardinality(MarkedWith(Marks)) = 3

\* A rejected ballot of four numeric marks, 1 twice, 2 and 3.
C4_Witness ==
    /\ LayoutDone
    /\ Cardinality(MarkedWith({"1"})) = 2
    /\ Cardinality(MarkedWith({"2"})) = 1
    /\ Cardinality(MarkedWith({"3"})) = 1
    /\ Cardinality(MarkedWith(Marks)) = 4
    /\ ballot.is_valid = FALSE

\* C5: a ballot whose marks are all None, or one of whose marks is not a cross
\* or 1, 2, 3 ("Unknown" included), is rejected whatever its other marks are.
C5_SentinelsRejected ==
    (LayoutDone /\ (MarkedWith(Marks) = {} \/ MarkedWith(Marks \ (Crosses \cup Numbers)) # {}))
        => ballot.is_valid = FALSE

\* A rejected ballot of one cross and one "Unknown", which would be valid
\* without the "Unknown".
C5_Witness ==
    /\ LayoutDone
    /\ Cardinality(MarkedWith(Crosses)) = 1
    /\ Cardinality(MarkedWith({"Unknown"})) = 1
    /\ Cardinality(MarkedWith(Marks)) = 2
    /\ ballot.is_valid = FALSE

----------------------------------------------------------------------------
(* The position associator: claims C6 to C9 *)

YoloDone == pc = "yolo_done"

\* The 0-based indexes, in result.boxes, of the name boxes and the mark boxes.
NameIndexes == {i \in 0..(Len(boxes) - 1) : boxes[i + 1].cls = "name"}

MarkIndexes == {i \in 0..(Len(boxes) - 1) : boxes[i + 1].cls # "name"}

Top(i) == boxes[i + 1].xyxy[1][2]

Bottom(i) == boxes[i + 1].xyxy[1][4]

\* The associations of the output whose index is that of box i.
EntriesFor(i) == {k \in DOMAIN names_and_votes : names_and_votes[k][1] = i}

\* The four matching rules on the edges of a name (n1, n2) and a mark (s1, s2).
Rule1Holds(n1, n2, s1, s2) == s1 <= n1 /\ n1 <= s2

Rule2Holds(n1, n2, s1, s2) == n1 <= s1 /\ s2 <= n2

Rule3Holds(n1, n2, s1, s2) == n1 - s2 < POSITION_TOLERANCE /\ s2 - n1 < POSITION_TOLERANCE

Rule4Holds(n1, n2, s1, s2) == s1 - n2 < POSITION_TOLERANCE /\ n2 - s1 < POSITION_TOLERANCE

SomeRuleHolds(n1, n2, s1, s2) ==
    \/ Rule1Holds(n1, n2, s1, s2)
    \/ Rule2Holds(n1, n2, s1, s2)
    \/ Rule3Holds(n1, n2, s1, s2)
    \/ Rule4Holds(n1, n2, s1, s2)

\* C6, as the spec states it: with one mark, and no overlap rule applying, a
\* mark whose bottom edge is exactly POSITION_TOLERANCE pixels above a name's
\* top edge is associated with that name, and one POSITION_TOLERANCE + 1
\* pixels above is not.
C6_AsStated ==
    (YoloDone /\ Cardinality(MarkIndexes) = 1) =>
        \A n \in NameIndexes, m \in MarkIndexes :
            /\ Top(n) - Bottom(m) = POSITION_TOLERANCE =>
                   \E k \in EntriesFor(n) : names_and_votes[k][2] = boxes[m + 1].cls
            /\ Top(n) - Bottom(m) = POSITION_TOLERANCE + 1 => EntriesFor(n) = {}

\* C6, amended: the comparison with the tolerance is strict. With one mark, a
\* mark whose bottom edge is above a name's top edge by less than
\* POSITION_TOLERANCE pixels (POSITION_TOLERANCE - 1 at most, in whole pixels)
\* is associated with that name by the "TOP" rule, and one that is exactly
\* POSITION_TOLERANCE pixels above, or more, is not associated.
C6_StrictTolerance ==
    (YoloDone /\ Cardinality(MarkIndexes) = 1) =>
        \A n \in NameIndexes, m \in MarkIndexes :
            /\ (Top(n) - Bottom(m) >= 1 /\ Top(n) - Bottom(m) <= POSITION_TOLERANCE - 1) =>
                   \E k \in EntriesFor(n) :
                       names_and_votes[k] = <<n, boxes[m + 1].cls, "TOP">>
            /\ Top(n) - Bottom(m) >= POSITION_TOLERANCE => EntriesFor(n) = {}

\* A mark exactly POSITION_TOLERANCE pixels above a name, which is left
\* without an association.
C6_Witness ==
    /\ YoloDone
    /\ Len(boxes) = 2
    /\ boxes[1].cls = "X"
    /\ boxes[2].cls = "name"
    /\ Top(1) - Bottom(0) = POSITION_TOLERANCE
    /\ names_and_votes = <<>>

\* C7, as the spec states it: the output holds exactly one association per
\* name region; a region for which no rule holds against any mark is in the
\* output with the mark None.
C7_AsStated ==
    YoloDone =>
        /\ Len(names_and_votes) = Cardinality(NameIndexes)
        /\ \A n \in NameIndexes :
              /\ Cardinality(EntriesFor(n)) = 1
              /\ (\A m \in MarkIndexes :
                      ~SomeRuleHolds(Top(n), Bottom(n), Top(m), Bottom(m)))
                 => \A k \in EntriesFor(n) : names_and_votes[k][2] = None

\* C7, amended: the output holds at most one association per name region, in
\* the order of the detections, each carrying exactly one mark: one for every
\* region that some rule matches against a mark of vote_symbol_dict, and none
\* for a region that no rule matches, which is left out of the output.
C7_OneAssociationAtMost ==
    YoloDone =>
        /\ \A k \in DOMAIN names_and_votes :
              /\ names_and_votes[k][1] \in NameIndexes
              /\ names_and_votes[k][2] \in {boxes[m + 1].cls : m \in MarkIndexes}
              /\ \A j \in DOMAIN names_and_votes :
                     j < k => names_and_votes[j][1] < names_and_votes[k][1]
        /\ \A n \in NameIndexes :
              (EntriesFor(n) # {}) <=>
                  \E d \in DOMAIN vote_symbol_dict :
                      SomeRuleHolds(Top(n), Bottom(n),
                                    vote_symbol_dict[d][2][1][2],
                                    vote_symbol_dict[d][2][1][4])

\* Two name regions and a mark: the first region has the mark, the second one,
\* which no rule matches, is not in the output.
C7_Witness ==
    /\ YoloDone
    /\ Len(boxes) = 3
    /\ NameIndexes = {0, 1}
    /\ Len(names_and_votes) = 1
    /\ names_and_votes[1][1] = 0

\* The first mark box, in the detector's order, that some rule matches with
\* name box n; -1 when there is none.
FirstMatchingMark(n) ==
    LET ms == {m \in MarkIndexes :
                   SomeRuleHolds(Top(n), Bottom(n), Top(m), Bottom(m))}
    IN  IF ms = {} THEN -1 ELSE CHOOSE m \in ms : \A o \in ms : m <= o

\* C8: the mark associated with a name region is the first mark detection, in
\* the detector's order over all mark detections, that satisfies a rule, each
\* detection being a mark at its own position even when two share a label.
C8_FirstMarkInDetectionOrder ==
    YoloDone =>
        \A n \in NameIndexes :
            LET m == FirstMatchingMark(n) IN
            IF m = -1 THEN EntriesFor(n) = {}
            ELSE \E k \in EntriesFor(n) :
                     names_and_votes[k][2] = boxes[m + 1].cls

\* C9, as the spec states it: with one mark, rule 1 associates exactly when the
\* mark's top lies within the name's span, rule 2 associates when the name's
\* span contains the mark's, and a mark whose top is outside the name's span
\* and which satisfies no other rule is not associated.
C9_AsStated ==
    (YoloDone /\ Cardinality(MarkIndexes) = 1) =>
        \A n \in NameIndexes, m \in MarkIndexes :
            /\ (\E k \in EntriesFor(n) : names_and_votes[k][3] = "1")
                   <=> (Top(n) <= Top(m) /\ Top(m) <= Bottom(n))
            /\ (Top(n) <= Top(m) /\ Bottom(m) <= Bottom(n)) => EntriesFor(n) # {}
            /\ (/\ ~(Top(n) <= Top(m) /\ Top(m) <= Bottom(n))
                /\ ~Rule2Holds(Top(n), Bottom(n), Top(m), Bottom(m))
                /\ ~Rule3Holds(Top(n), Bottom(n), Top(m), Bottom(m))
                /\ ~Rule4Holds(Top(n), Bottom(n), Top(m), Bottom(m)))
               => EntriesFor(n) = {}

\* C9, amended: with one mark, rule 1 associates exactly when the name's top
\* lies within the mark's span [top, bottom] (not the mark's top within the
\* name's span); rule 2 associates when rule 1 does not and the name's span
\* contains the mark's span; a mark that satisfies none of the four rules is
\* not associated.
C9_NameTopWithinMark ==
    (YoloDone /\ Cardinality(MarkIndexes) = 1) =>
        \A n \in NameIndexes, m \in MarkIndexes :
            /\ (\E k \in EntriesFor(n) : names_and_votes[k][3] = "1")
                   <=> (Top(m) <= Top(n) /\ Top(n) <= Bottom(m))
            /\ (\E k \in EntriesFor(n) : names_and_votes[k][3] = "2")
                   <=> (/\ ~(Top(m) <= Top(n) /\ Top(n) <= Bottom(m))
                        /\ Top(n) <= Top(m) /\ Bottom(m) <= Bottom(n))
            /\ ~SomeRuleHolds(Top(n), Bottom(n), Top(m), Bottom(m))
                   => EntriesFor(n) = {}

\* A mark that starts above the name and ends inside it: rule 1 associates it,
\* though the mark's top is outside the name's span.
C9_Witness ==
    /\ YoloDone
    /\ Len(boxes) = 2
    /\ boxes[1].cls = "1"
    /\ boxes[2].cls = "name"
    /\ Top(0) < Top(1)
    /\ Bottom(0) > Top(1)
    /\ Bottom(0) < Bottom(1)
    /\ names_and_votes = << <<1, "1", "1">> >>

----------------------------------------------------------------------------
(* The row segmenter: claim C10 *)

RowsDone == pc = "cv_rows"

RECURSIVE Flatten(_)
Flatten(ss) == IF ss = <<>> THEN <<>> ELSE Head(ss) \o Flatten(Tail(ss))

\* The bounding rectangles that are lines, in the order of their detection.
DetectedLineYs ==
    LET wide == SelectSeq(bounding_rects, LAMBDA r : r[3] > 300)
    IN  [i \in DOMAIN wide |-> wide[i][2]]

\* C10: for lines detected in any order, the rows returned are ordered from
\* the top, contiguous and non-overlapping, and cover the image from y = 0 to
\* its height: one after the other they are the image's pixel rows 0, 1, ...,
\* height - 1, each once; and there is one row more than detected lines.
C10_RowsCoverImage ==
    RowsDone =>
        /\ Len(sub_images) = Len(DetectedLineYs) + 1
        /\ Flatten(sub_images) = [k \in 1..image_height |-> k - 1]

\* Three lines detected from the bottom up, the lowest one first, which give
\* four rows that are not empty.
C10_Witness ==
    /\ RowsDone
    /\ Len(DetectedLineYs) = 3
    /\ DetectedLineYs[1] > DetectedLineYs[2]
    /\ DetectedLineYs[2] > DetectedLineYs[3]
    /\ DetectedLineYs[3] > 0
    /\ Len(sub_images) = 4
    /\ \A i \in 1..4 : sub_images[i] # <<>>

----------------------------------------------------------------------------
(* The row filter: claim C11 *)

\* The rows the loop has taken so far whose height is in S.
SeenWithHeight(S) == {j \in 1..rows_seen : Len(sub_images[j]) \in S}

\* C11, as the spec states it: a row is dropped exactly when it is smaller
\* than 40 px, so that a row of exactly 40 px is kept; dropped rows take no
\* row number, and the rows kept are numbered 1, 2, ..., N from the top: after
\* any number of rows, the counter is the number of rows of 40 px or more
\* among them and the numbers given are 1..counter.
C11_AsStated ==
    pc = "cv_rows" =>
        /\ row = Cardinality(SeenWithHeight(40..image_height))
        /\ DOMAIN vote_dict = 1..row

\* C11, amended: a row is dropped exactly when its height is 40 px or less
\* (its width, that of the image, is always above 40), so that a row of exactly
\* 40 px is dropped and one of 41 px is kept; dropped rows take no row number,
\* and the rows kept are numbered 1, 2, ..., N from the top.
C11_KeptAbove40 ==
    pc = "cv_rows" =>
        /\ row = Cardinality(SeenWithHeight(41..image_height))
        /\ DOMAIN vote_dict = 1..row

\* An image of 81 pixel rows with a line at y = 40, all rows taken: the row of
\* 40 px above the line is dropped, and the row of 41 px below it is row 1.
C11_Witness ==
    /\ pc = "cv_rows"
    /\ rows_seen = 2
    /\ Len(sub_images) = 2
    /\ Len(sub_images[1]) = 40
    /\ Len(sub_images[2]) = 41
    /\ row = 1
    /\ DOMAIN vote_dict = {1}

----------------------------------------------------------------------------
(* The text path: claim C12 *)

\* The vote of the candidate of line i (1-based) as C12 has it: that of the
\* line itself; if it has none, that of the line before, if there is one; if
\* that has none either, that of the line after, if there is one.
NeighbourVote(i) ==
    LET here == extract_vote(text_lines[i].tail)
        before == IF i > 1 THEN extract_vote(text_lines[i - 1].tail) ELSE None
        after == IF i < Len(text_lines) THEN extract_vote(text_lines[i + 1].tail)
                 ELSE None
    IN  IF here # None THEN here
        ELSE IF before # None THEN before
        ELSE after

\* The lines (1-based) with a known candidate name, in the order of the text.
CandidateLines ==
    SelectSeq([i \in DOMAIN text_lines |-> i],
              LAMBDA i : text_lines[i].name # None)

\* C12: process_votes returns, without failing, one record for every line with
\* a known candidate name, numbered 1, 2, ... in the order of the lines, whose
\* vote is that of the line, else of the line before, else of the line after;
\* a neighbour a first or last line does not have is skipped, with no
\* wrap-around to the other end of the text.
C12_NeighbourFallback ==
    pc # "layout_text" =>
        /\ pc # "layout_raised"
        /\ votes = [k \in DOMAIN CandidateLines |->
                       [sheet_position |-> k,
                        candidate_name |-> text_lines[CandidateLines[k]].name,
                        vote |-> NeighbourVote(CandidateLines[k])]]

====
